---- MODULE Spec2Model ----
(***************************************************************************)
(* Model of FreeRTOS_abstract.h: the Queue ring buffer with its            *)
(* availability CountingSemaphore, the DoAsync job runner, the Mutex /     *)
(* BinarySemaphore / CountingSemaphore family, Task, Timer and TimerDelay. *)
(*                                                                         *)
(* The kernel is modelled only as far as the wrappers use it: a semaphore  *)
(* is a count bounded by its maximum, xSemaphoreTake with a finite tick    *)
(* budget fails when nothing arrives, and the millisecond to tick          *)
(* conversion is the kernel macro pdMS_TO_TICKS evaluated for a build with *)
(* 16 bit ticks (configUSE_16_BIT_TICKS), where portMAX_DELAY is 0xFFFF.   *)
(***************************************************************************)
EXTENDS Integers, Sequences, FiniteSets, TLC

VARIABLES
    tick_rate,      \* configTICK_RATE_HZ of the build
    buffer,         \* Queue::buffer : slot -> [live, val]
    rd_idx,         \* Queue::rd_idx
    wr_idx,         \* Queue::wr_idx
    sem_count,      \* count of Queue::semaphore
    front_ret,      \* what the consumer's last Front returned (NULL or a slot)
    call,           \* the last completed Queue call: [op, arg, ret]
    emplaced,       \* history: the elements emplaced successfully, in order
    observed,       \* history: what each Front+Pop pair read from its slot
    pc,             \* concurrent Queue use: where each task is in its call
    next_wr_idx,    \* TryEmplaceBack's local next_wr_idx, per producer
    item,           \* the element each producer is emplacing
    issued,         \* history: number of TryEmplaceBack calls begun
    lost,           \* history: elements constructed over before being popped
    wait_arg,       \* the wait_ms of the consumer's Front in progress
    static_alloc,   \* configSUPPORT_STATIC_ALLOCATION == 1 in the build
    creator_pc,     \* DoAsync: where the task owning the runner is
    task_pc,        \* DoAsync: where the spawned task is in handler()
    task_waiting,   \* DoAsync: the job is blocked inside a kernel call
    done,           \* DoAsync: count of the BinarySemaphore done
    prio,           \* DoAsync: priority of the owning and of the spawned task
    sem_obj,        \* Mutex family objects: object -> [class, state, handle]
    k_sem,          \* kernel: handle -> [kind, count, max, creates, deletes, live]
    k_next,         \* kernel: the next handle the heap hands out
    made,           \* history: the handles created while each object was constructed
    sem_call,       \* the last completed call on a Mutex family object
    sem_hist,       \* history: per object, the calls made since its construction
    asserts,        \* configASSERT(x) is compiled to a check of x in the build
    task_life,      \* Task object: unborn, alive, halted (in assert_failed), destroyed
    task_handle,    \* Task::handle
    k_task,         \* kernel: eTaskState of the task the Task object created
    k_task_deletes, \* history: vTaskDelete requests the kernel received for it
    get_state,      \* what the last GetState() returned
    timer_life,     \* Timer object: unborn, alive, halted (in assert_failed), destroyed
    timer_handle,   \* Timer::handle
    k_timer,        \* kernel: the timer is none, dormant, active or deleted
    k_timer_auto,   \* kernel: the timer reloads itself when it expires
    k_timer_deletes,\* history: delete commands the kernel accepted for the timer
    timer_call,     \* the last Timer call that returned: [op, arg]
    ms_in,          \* the wait_ms a blocking call was last given
    ticks_out,      \* the tick budget that call handed to the kernel
    now_ms,         \* time since the kernel started, in milliseconds
    delay_life,     \* TimerDelay object: unborn, alive, halted (in assert_failed)
    xLastWakeTime,  \* TimerDelay::xLastWakeTime
    t0,             \* history: the tick Reset() last recorded (NULL: none yet)
    period,         \* history: the ms of the Wait calls made since t0
    waits,          \* history: the number of Wait calls returned since t0
    resets,         \* history: the number of times the reference time was recorded
    woke,           \* history: the tick at which the last Wait returned
    delay_pc,       \* the task using the TimerDelay: about to work, or to call Wait
    k_notified,     \* kernel: notifications the task of the Task object was sent
    notify_gives    \* history: NotifyGive calls that returned

qvars == <<buffer, rd_idx, wr_idx, sem_count, front_ret, call, emplaced, observed>>
mpvars == <<pc, next_wr_idx, item, issued, lost, wait_arg>>
avars == <<creator_pc, task_pc, task_waiting, done, prio>>
svars == <<sem_obj, k_sem, k_next, made, sem_call, sem_hist>>
tkvars == <<task_life, task_handle, k_task, k_task_deletes, get_state>>
tmvars == <<timer_life, timer_handle, k_timer, k_timer_auto, k_timer_deletes, timer_call>>
cvars == <<ms_in, ticks_out>>
dvars == <<now_ms, delay_life, xLastWakeTime, t0, period, waits, resets, woke, delay_pc>>
nvars == <<k_notified, notify_gives>>
build == <<tick_rate, static_alloc, asserts>>
vars == <<build, qvars, mpvars, avars, svars, tkvars, tmvars, cvars, dvars, nvars>>
\* what no Queue call touches
nonQueue == <<build, avars, svars, tkvars, tmvars, cvars, dvars, nvars>>
\* what DoAsync does not touch
nonAsync == <<build, qvars, mpvars, svars, tkvars, tmvars, cvars, dvars, nvars>>
\* what the Mutex family does not touch
nonSem == <<build, qvars, mpvars, avars, tkvars, tmvars, cvars, dvars, nvars>>
\* what the life cycle and the state calls of a Task object do not touch
nonTask == <<build, qvars, mpvars, avars, svars, tmvars, cvars, dvars, nvars>>
\* what a Timer does not touch
nonTimer == <<build, qvars, mpvars, avars, svars, tkvars, cvars, dvars, nvars>>
\* what a conversion of a wait does not touch
nonTicks == <<build, qvars, mpvars, avars, svars, tkvars, tmvars, dvars, nvars>>
\* what a TimerDelay does not touch
nonDelay == <<build, qvars, mpvars, avars, svars, tkvars, tmvars, cvars, nvars>>
\* what a task notification does not touch
nonNotify == <<build, qvars, mpvars, avars, svars, tmvars, cvars, dvars>>

(***************************************************************************)
(* Bounds and build parameters                                             *)
(***************************************************************************)
size == 3                   \* template parameter of the modelled Queue<T, size>
MaxItems == 4               \* successful emplaces explored
WAIT_MAX == 65535           \* portMAX_DELAY of a 16 bit tick build
TickRates == {100, 1000}    \* the configTICK_RATE_HZ values explored
WaitTimes == {0, 5}         \* the wait_ms arguments of Front explored

NULL == -1                  \* nullptr, as a slot reference
Slots == 0 .. (size - 1)
Items == 1 .. MaxItems

(***************************************************************************)
(* Kernel calls, as the wrappers use them                                  *)
(***************************************************************************)
portMAX_DELAY == WAIT_MAX

\* pdMS_TO_TICKS(ms): ms * configTICK_RATE_HZ / 1000, truncated to TickType_t
pdMS_TO_TICKS(ms) == ((ms * tick_rate) \div 1000) % (portMAX_DELAY + 1)

\* Mutex::Unlock / BinarySemaphore::Give: xSemaphoreGive on a count bounded by max
xSemaphoreGive(count, max) ==
    IF count < max THEN [ok |-> TRUE, count |-> count + 1]
                   ELSE [ok |-> FALSE, count |-> count]

\* Mutex::Lock / BinarySemaphore::Take when no other task runs meanwhile:
\* the outcomes of xSemaphoreTake(handle, pdMS_TO_TICKS(wait_ms)).  With the
\* count at zero a finite budget times out and portMAX_DELAY never returns.
xSemaphoreTake(count, wait_ms) ==
    IF count > 0 THEN {[ok |-> TRUE, count |-> count - 1]}
    ELSE IF pdMS_TO_TICKS(wait_ms) = portMAX_DELAY THEN {}
    ELSE {[ok |-> FALSE, count |-> count]}

(***************************************************************************)
(* Queue<T, size>, called by one task at a time                            *)
(***************************************************************************)
QueueInit ==
    /\ buffer = [s \in Slots |-> [live |-> FALSE, val |-> 0]]
    /\ rd_idx = 0
    /\ wr_idx = 0
    /\ sem_count = 0        \* CountingSemaphore semaphore {0, size}
    /\ front_ret = NULL
    /\ call = [op |-> "none", arg |-> 0, ret |-> FALSE]
    /\ emplaced = <<>>
    /\ observed = <<>>

NextWrIdx(wr) == IF wr + 1 = size THEN 0 ELSE wr + 1

\* TryEmplaceBack with the element constructed before the full test
TryEmplaceBack_ConstructFirst(v) ==
    LET next == NextWrIdx(wr_idx) IN
    /\ Len(emplaced) < MaxItems
    /\ v = Len(emplaced) + 1
    /\ buffer' = [buffer EXCEPT ![wr_idx] = [live |-> TRUE, val |-> v]]
    /\ IF next = rd_idx
       THEN /\ call' = [op |-> "TryEmplaceBack", arg |-> v, ret |-> FALSE]
            /\ UNCHANGED <<wr_idx, sem_count, emplaced>>
       ELSE /\ sem_count' = xSemaphoreGive(sem_count, size).count
            /\ wr_idx' = next
            /\ emplaced' = Append(emplaced, v)
            /\ call' = [op |-> "TryEmplaceBack", arg |-> v, ret |-> TRUE]
    /\ UNCHANGED <<rd_idx, front_ret, observed, mpvars, nonQueue>>

TryEmplaceBack(v) ==
    LET next == NextWrIdx(wr_idx) IN
    /\ Len(emplaced) < MaxItems
    /\ v = Len(emplaced) + 1
    /\ IF next = rd_idx
       THEN /\ call' = [op |-> "TryEmplaceBack", arg |-> v, ret |-> FALSE]
            /\ UNCHANGED <<buffer, wr_idx, sem_count, emplaced>>
       ELSE /\ buffer' = [buffer EXCEPT ![wr_idx] = [live |-> TRUE, val |-> v]]
            /\ sem_count' = xSemaphoreGive(sem_count, size).count
            /\ wr_idx' = next
            /\ emplaced' = Append(emplaced, v)
            /\ call' = [op |-> "TryEmplaceBack", arg |-> v, ret |-> TRUE]
    /\ UNCHANGED <<rd_idx, front_ret, observed, mpvars, nonQueue>>

Front(wait_ms) ==
    /\ IF wr_idx = rd_idx
       THEN IF wait_ms # 0
            THEN \E r \in xSemaphoreTake(sem_count, wait_ms) :
                    /\ sem_count' = r.count
                    /\ front_ret' = IF r.ok THEN rd_idx ELSE NULL
            ELSE /\ front_ret' = NULL
                 /\ UNCHANGED sem_count
       ELSE /\ front_ret' = rd_idx
            /\ UNCHANGED sem_count
    /\ call' = [op |-> "Front", arg |-> wait_ms, ret |-> (front_ret' # NULL)]
    /\ UNCHANGED <<buffer, rd_idx, wr_idx, emplaced, observed, mpvars, nonQueue>>

\* buffer[rd_idx].~T(); rd_idx++; if (rd_idx == size) rd_idx = 0;
\* The history records the slot as the consumer found it behind the pointer
\* Front returned: live = FALSE is a read of a slot that holds no constructed
\* element, whose value is indeterminate.
Pop ==
    /\ front_ret # NULL     \* contract: only after a Front that returned an element
    /\ observed' = Append(observed, buffer[rd_idx])
    /\ buffer' = [buffer EXCEPT ![rd_idx].live = FALSE]
    /\ rd_idx' = IF rd_idx + 1 = size THEN 0 ELSE rd_idx + 1
    /\ front_ret' = NULL
    /\ call' = [op |-> "Pop", arg |-> 0, ret |-> TRUE]
    /\ UNCHANGED <<wr_idx, sem_count, emplaced, mpvars, nonQueue>>

TryPushBack(v) == TryEmplaceBack(v)

(***************************************************************************)
(* Queue<T, size> used by several tasks: the producers run TryEmplaceBack  *)
(* statement by statement and may be preempted between any two of them;    *)
(* the one consumer runs Front and Pop.                                    *)
(***************************************************************************)
Producers == {"p1", "p2"}
Consumer == "consumer"
MaxCalls == 3               \* TryEmplaceBack calls begun by the producers together

MPInit ==
    /\ pc = [t \in Producers \cup {Consumer} |-> "idle"]
    /\ next_wr_idx = [p \in Producers |-> 0]
    /\ item = [p \in Producers |-> 0]
    /\ issued = 0
    /\ lost = {}
    /\ wait_arg = 0

\* size_t next_wr_idx = wr_idx + 1; if (next_wr_idx == size) next_wr_idx = 0;
EmplaceBegin(p) ==
    /\ pc[p] = "idle"
    /\ issued < MaxCalls
    /\ issued' = issued + 1
    /\ item' = [item EXCEPT ![p] = issued + 1]
    /\ next_wr_idx' = [next_wr_idx EXCEPT ![p] = NextWrIdx(wr_idx)]
    /\ pc' = [pc EXCEPT ![p] = "check"]
    /\ UNCHANGED <<qvars, lost, wait_arg, nonQueue>>

\* if (next_wr_idx == rd_idx) return false;
EmplaceCheck(p) ==
    /\ pc[p] = "check"
    /\ IF next_wr_idx[p] = rd_idx
       THEN /\ pc' = [pc EXCEPT ![p] = "idle"]
            /\ call' = [op |-> "TryEmplaceBack", arg |-> item[p], ret |-> FALSE]
       ELSE /\ pc' = [pc EXCEPT ![p] = "construct"]
            /\ UNCHANGED call
    /\ UNCHANGED <<buffer, rd_idx, wr_idx, sem_count, front_ret, emplaced, observed>>
    /\ UNCHANGED <<next_wr_idx, item, issued, lost, wait_arg, nonQueue>>

\* new (&buffer[wr_idx]) T(args...);
EmplaceConstruct(p) ==
    /\ pc[p] = "construct"
    /\ buffer' = [buffer EXCEPT ![wr_idx] = [live |-> TRUE, val |-> item[p]]]
    /\ lost' = IF buffer[wr_idx].live THEN lost \cup {buffer[wr_idx].val} ELSE lost
    /\ pc' = [pc EXCEPT ![p] = "give"]
    /\ UNCHANGED <<rd_idx, wr_idx, sem_count, front_ret, call, emplaced, observed>>
    /\ UNCHANGED <<next_wr_idx, item, issued, wait_arg, nonQueue>>

\* semaphore.Give();
EmplaceGive(p) ==
    /\ pc[p] = "give"
    /\ sem_count' = xSemaphoreGive(sem_count, size).count
    /\ pc' = [pc EXCEPT ![p] = "advance"]
    /\ UNCHANGED <<buffer, rd_idx, wr_idx, front_ret, call, emplaced, observed>>
    /\ UNCHANGED <<next_wr_idx, item, issued, lost, wait_arg, nonQueue>>

\* wr_idx = next_wr_idx; return true;
EmplaceAdvance(p) ==
    /\ pc[p] = "advance"
    /\ wr_idx' = next_wr_idx[p]
    /\ emplaced' = Append(emplaced, item[p])
    /\ call' = [op |-> "TryEmplaceBack", arg |-> item[p], ret |-> TRUE]
    /\ pc' = [pc EXCEPT ![p] = "idle"]
    /\ UNCHANGED <<buffer, rd_idx, sem_count, front_ret, observed>>
    /\ UNCHANGED <<next_wr_idx, item, issued, lost, wait_arg, nonQueue>>

\* Front up to the semaphore: if (wr_idx == rd_idx) { if (wait_ms) ... else return nullptr; }
FrontBegin(wait_ms) ==
    /\ pc[Consumer] = "idle"
    /\ IF wr_idx = rd_idx
       THEN IF wait_ms # 0
            THEN /\ pc' = [pc EXCEPT ![Consumer] = "take"]
                 /\ wait_arg' = wait_ms
                 /\ UNCHANGED <<front_ret, call>>
            ELSE /\ front_ret' = NULL
                 /\ call' = [op |-> "Front", arg |-> wait_ms, ret |-> FALSE]
                 /\ UNCHANGED <<pc, wait_arg>>
       ELSE /\ front_ret' = rd_idx
            /\ call' = [op |-> "Front", arg |-> wait_ms, ret |-> TRUE]
            /\ UNCHANGED <<pc, wait_arg>>
    /\ UNCHANGED <<buffer, rd_idx, wr_idx, sem_count, emplaced, observed>>
    /\ UNCHANGED <<next_wr_idx, item, issued, lost, nonQueue>>

\* if (!semaphore.Take(wait_ms)) return nullptr;  return &buffer[rd_idx];
FrontTake ==
    /\ pc[Consumer] = "take"
    /\ \E r \in xSemaphoreTake(sem_count, wait_arg) :
          /\ sem_count' = r.count
          /\ front_ret' = IF r.ok THEN rd_idx ELSE NULL
          /\ call' = [op |-> "Front", arg |-> wait_arg, ret |-> r.ok]
    /\ pc' = [pc EXCEPT ![Consumer] = "idle"]
    /\ UNCHANGED <<buffer, rd_idx, wr_idx, emplaced, observed>>
    /\ UNCHANGED <<next_wr_idx, item, issued, lost, wait_arg, nonQueue>>

ConsumerPop ==
    /\ pc[Consumer] = "idle"
    /\ Pop

\* semaphore.Take(wait_ms) entered with the count at zero and a tick budget
\* that is not zero: the kernel puts the consumer on the wait list of the
\* semaphore, where it stays until a Give or the end of the budget.
FrontBlock ==
    /\ pc[Consumer] = "take"
    /\ sem_count = 0
    /\ pdMS_TO_TICKS(wait_arg) # 0
    /\ pc' = [pc EXCEPT ![Consumer] = "blocked"]
    /\ UNCHANGED <<qvars, next_wr_idx, item, issued, lost, wait_arg, nonQueue>>

\* The blocked consumer runs again: xSemaphoreTake returns pdTRUE with the
\* count a Give left, pdFALSE at the end of the budget with the count at zero;
\* then  if (!semaphore.Take(wait_ms)) return nullptr;  return &buffer[rd_idx];
FrontWake ==
    /\ pc[Consumer] = "blocked"
    /\ \E r \in xSemaphoreTake(sem_count, wait_arg) :
          /\ sem_count' = r.count
          /\ front_ret' = IF r.ok THEN rd_idx ELSE NULL
          /\ call' = [op |-> "Front", arg |-> wait_arg, ret |-> r.ok]
    /\ pc' = [pc EXCEPT ![Consumer] = "idle"]
    /\ UNCHANGED <<buffer, rd_idx, wr_idx, emplaced, observed>>
    /\ UNCHANGED <<next_wr_idx, item, issued, lost, wait_arg, nonQueue>>

(***************************************************************************)
(* Task::DoAsync: the owning task constructs the runner and later destroys *)
(* it; the spawned task runs handler().  One core, preemptive priorities:  *)
(* a task runs only while no ready task has a higher priority.             *)
(***************************************************************************)
MaxPrio == 2
Priorities == 1 .. MaxPrio
Creator == "creator"
Spawned == "spawned"

AsyncInit ==
    /\ creator_pc = "start"
    /\ task_pc = "none"
    /\ task_waiting = FALSE
    /\ done = 0
    /\ prio = [t \in {Creator, Spawned} |-> 1]

\* ~DoAsync's done.Take(WAIT_MAX) has something to return: the semaphore was
\* given, or the tick budget pdMS_TO_TICKS(WAIT_MAX) has run out
TakeCanReturn == done > 0 \/ creator_pc = "take_timeout"

Ready(t) ==
    IF t = Creator
    THEN creator_pc # "start" /\ (creator_pc = "take_blocked" => TakeCanReturn)
    ELSE task_pc \notin {"none", "deleted"} /\ ~task_waiting

Runs(t) ==
    /\ Ready(t)
    /\ \A u \in {Creator, Spawned} : Ready(u) => prio[u] <= prio[t]

\* DoAsync(job, priority): async_job = job;
\* configASSERT(xTaskCreate[Static](handler, ..., this, ...) succeeded): the
\* creation is the asserted expression; the dynamic one can fail
DoAsync(priority, own) ==
    /\ creator_pc = "start"
    /\ prio' = [prio EXCEPT ![Spawned] = priority, ![Creator] = own]
    /\ \E created \in {TRUE} \cup {static_alloc} :
          /\ creator_pc' = IF asserts /\ ~created THEN "halted" ELSE "scope"
          /\ task_pc' = IF asserts /\ created THEN "handler" ELSE "none"
    /\ done' = 0                    \* BinarySemaphore done, created empty
    /\ UNCHANGED <<task_waiting, nonAsync>>

\* ~DoAsync: done.Take(WAIT_MAX), entered
DtorTake ==
    /\ creator_pc = "scope"
    /\ Runs(Creator)
    /\ IF done > 0
       THEN /\ done' = done - 1
            /\ creator_pc' = "joined"
       ELSE /\ creator_pc' = IF pdMS_TO_TICKS(WAIT_MAX) = 0 THEN "gave_up" ELSE "take_blocked"
            /\ UNCHANGED done
    /\ UNCHANGED <<task_pc, task_waiting, prio, nonAsync>>

\* the tick budget of the blocked Take runs out: only a finite budget does
DtorTimeout ==
    /\ creator_pc = "take_blocked"
    /\ done = 0
    /\ pdMS_TO_TICKS(WAIT_MAX) # portMAX_DELAY
    /\ creator_pc' = "take_timeout"
    /\ UNCHANGED <<task_pc, task_waiting, done, prio, nonAsync>>

\* ~DoAsync: the blocked Take returns (given, or timed out) and so does the destructor
DtorReturn ==
    /\ creator_pc \in {"take_blocked", "take_timeout"}
    /\ TakeCanReturn
    /\ Runs(Creator)
    /\ done' = IF done > 0 THEN done - 1 ELSE done
    /\ creator_pc' = IF done > 0 THEN "joined" ELSE "gave_up"
    /\ UNCHANGED <<task_pc, task_waiting, prio, nonAsync>>

\* handler: DoAsync *c = static_cast<DoAsync *>(args); c->async_job() is entered
HandlerStart ==
    /\ task_pc = "handler"
    /\ Runs(Spawned)
    /\ task_pc' = "job"
    /\ UNCHANGED <<creator_pc, task_waiting, done, prio, nonAsync>>

\* the job blocks in a kernel call of its own (a delay, a take) ...
JobBlocks ==
    /\ task_pc = "job"
    /\ Runs(Spawned)
    /\ task_waiting' = TRUE
    /\ UNCHANGED <<creator_pc, task_pc, done, prio, nonAsync>>

\* ... and is made ready again
JobWakes ==
    /\ task_pc = "job"
    /\ task_waiting
    /\ task_waiting' = FALSE
    /\ UNCHANGED <<creator_pc, task_pc, done, prio, nonAsync>>

\* c->async_job() returns
JobReturns ==
    /\ task_pc = "job"
    /\ Runs(Spawned)
    /\ task_pc' = "give"
    /\ UNCHANGED <<creator_pc, task_waiting, done, prio, nonAsync>>

\* c->done.Give();
HandlerGive ==
    /\ task_pc = "give"
    /\ Runs(Spawned)
    /\ done' = xSemaphoreGive(done, 1).count
    /\ task_pc' = "selfdelete"
    /\ UNCHANGED <<creator_pc, task_waiting, prio, nonAsync>>

\* Task::SelfDelete(): vTaskDelete(nullptr)
SelfDelete ==
    /\ task_pc = "selfdelete"
    /\ Runs(Spawned)
    /\ task_pc' = "deleted"
    /\ UNCHANGED <<creator_pc, task_waiting, done, prio, nonAsync>>

(***************************************************************************)
(* Mutex, BinarySemaphore, CountingSemaphore: construction runs the        *)
(* constructor bodies of the inheritance chain, base first; destruction    *)
(* runs ~Mutex, the only destructor body of the chain.                     *)
(***************************************************************************)
Objs == {1, 2}
Classes == {"Mutex", "BinarySemaphore", "CountingSemaphore"}
MaxCount == 2               \* largest max of a CountingSemaphore explored

\* The calls made on an object since its construction, as far as they form
\* an optional opening Take(0), then a run of Gives, then a run of Takes:
\* how many calls each run has and how many of them returned true.  held is
\* the number of successful acquires not yet matched by a successful release.
Fresh(initial) ==
    [phase |-> "giving", initial |-> initial, probe |-> "none",
     gives |-> 0, given |-> 0, takes |-> 0, taken |-> 0, held |-> 0]

AfterGive(hh, ok, max) ==
    LET rel == [hh EXCEPT !.held = IF ok /\ @ > 0 THEN @ - 1 ELSE @] IN
    IF hh.phase = "giving" /\ hh.gives <= max
    THEN [rel EXCEPT !.gives = @ + 1, !.given = IF ok THEN @ + 1 ELSE @]
    ELSE [Fresh(hh.initial) EXCEPT !.phase = "other", !.held = rel.held]

AfterTake(hh, ok, wait_ms, max) ==
    LET acq == [hh EXCEPT !.held = IF ok /\ @ < max THEN @ + 1 ELSE @] IN
    IF hh.phase = "giving" /\ hh.gives = 0 /\ hh.probe = "none" /\ wait_ms = 0
    THEN [acq EXCEPT !.probe = IF ok THEN "taken" ELSE "failed"]
    ELSE IF hh.phase \in {"giving", "taking"} /\ hh.takes <= max
    THEN [acq EXCEPT !.phase = "taking", !.takes = @ + 1, !.taken = IF ok THEN @ + 1 ELSE @]
    ELSE [Fresh(hh.initial) EXCEPT !.phase = "other", !.held = acq.held]

SemInit ==
    /\ sem_obj = [o \in Objs |-> [class |-> "none", state |-> "unborn", handle |-> NULL]]
    /\ k_sem = <<>>
    /\ k_next = 1
    /\ made = [o \in Objs |-> <<>>]
    /\ sem_call = [op |-> "none", obj |-> NULL, arg |-> 0, ret |-> 0, waited |-> 0]
    /\ sem_hist = [o \in Objs |-> Fresh(0)]

\* xSemaphoreCreate...: the static variants build the semaphore in the
\* object's own buffer and return its address (the object stands for it);
\* the dynamic variants return a fresh heap block.
\* st = [k, next, handle, made, heap, halted] is the kernel and the object
\* under construction: heap is the number of semaphores the heap can still
\* hold, halted that a configASSERT has failed (assert_failed never returns,
\* the constructor bodies that follow are not reached).  The dynamic
\* variants return nullptr when the heap is exhausted, and the constructors
\* follow them with configASSERT(handle != nullptr); the static ones are
\* given the object's buffer and cannot fail.
xSemaphoreCreate(st, o, kind, count, max) ==
    LET h == IF static_alloc THEN o ELSE st.next
        before == IF h \in DOMAIN st.k THEN st.k[h].creates ELSE 0
        dels == IF h \in DOMAIN st.k THEN st.k[h].deletes ELSE 0
        entry == [kind |-> kind, count |-> count, max |-> max,
                  creates |-> before + 1, deletes |-> dels, live |-> TRUE]
    IN  IF st.halted THEN st
        ELSE IF ~static_alloc /\ st.heap = 0
        THEN [st EXCEPT !.handle = NULL, !.halted = asserts]
        ELSE [k |-> [x \in DOMAIN st.k \cup {h} |-> IF x = h THEN entry ELSE st.k[x]],
              next |-> IF static_alloc THEN st.next ELSE st.next + 1,
              handle |-> h,
              made |-> Append(st.made, h),
              heap |-> IF static_alloc THEN st.heap ELSE st.heap - 1,
              halted |-> FALSE]

\* Mutex(): handle = xSemaphoreCreateMutex[Static]
MutexCtor(st, o) == xSemaphoreCreate(st, o, "mutex", 1, 1)

\* BinarySemaphore() creating its semaphore already given
BinarySemaphoreCtor_Signaled(st, o) == xSemaphoreCreate(MutexCtor(st, o), o, "binary", 1, 1)

\* BinarySemaphore(): handle = xSemaphoreCreateBinary[Static], after Mutex()
BinarySemaphoreCtor(st, o) == xSemaphoreCreate(MutexCtor(st, o), o, "binary", 0, 1)

\* CountingSemaphore(initial, max): handle = xSemaphoreCreateCounting[Static],
\* after BinarySemaphore()
CountingSemaphoreCtor(st, o, initial, max) ==
    xSemaphoreCreate(BinarySemaphoreCtor(st, o), o, "counting", initial, max)

\* the constructor bodies of class, run on a heap with room for heap semaphores
Constructed(o, class, initial, max, heap) ==
    LET st0 == [k |-> k_sem, next |-> k_next, handle |-> NULL, made |-> <<>>,
                heap |-> heap, halted |-> FALSE]
    IN  CASE class = "Mutex" -> MutexCtor(st0, o)
          [] class = "BinarySemaphore" -> BinarySemaphoreCtor(st0, o)
          [] class = "CountingSemaphore" -> CountingSemaphoreCtor(st0, o, initial, max)

Construct(o, class, initial, max) ==
    /\ sem_obj[o].state = "unborn"
    /\ class = "CountingSemaphore" \/ (initial = 0 /\ max = 1)
    /\ initial <= max
    /\ \E heap \in 0 .. Cardinality(Classes) :
          LET st == Constructed(o, class, initial, max, heap) IN
          /\ static_alloc => heap = Cardinality(Classes)
          /\ sem_obj' = [sem_obj EXCEPT ![o] =
                            [class |-> class,
                             state |-> IF st.halted THEN "halted" ELSE "alive",
                             handle |-> st.handle]]
          /\ k_sem' = st.k
          /\ k_next' = st.next
          /\ made' = [made EXCEPT ![o] = st.made]
          /\ sem_hist' = [sem_hist EXCEPT ![o] =
                             Fresh(IF st.handle = NULL THEN 0 ELSE st.k[st.handle].count)]
    /\ UNCHANGED <<sem_call, nonSem>>

\* ~Mutex(): if (handle) vSemaphoreDelete(handle); handle = nullptr;
MutexDtor(o) ==
    LET h == sem_obj[o].handle IN
    /\ sem_obj[o].state = "alive"
    /\ k_sem' = IF h # NULL
                THEN [k_sem EXCEPT ![h].deletes = @ + 1, ![h].live = FALSE]
                ELSE k_sem
    /\ sem_obj' = [sem_obj EXCEPT ![o].state = "destroyed", ![o].handle = NULL]
    /\ UNCHANGED <<k_next, made, sem_call, sem_hist, nonSem>>

(***************************************************************************)
(* Task<stack_size>: one Task object and the kernel task it creates.  The  *)
(* kernel reports the task's state as an eTaskState, whose enumerators are *)
(* eRunning = 0, eReady, eBlocked, eSuspended, eDeleted, eInvalid.         *)
(***************************************************************************)
TCB == 1                    \* the handle of the one kernel task
eTaskState == <<"eRunning", "eReady", "eBlocked", "eSuspended", "eDeleted", "eInvalid">>
\* enum TaskState { Ready, Running, Blocked, Suspended, Deleted };
TaskState == <<"Ready", "Running", "Blocked", "Suspended", "Deleted">>

\* the value of an enumerator: its position in the enum, from 0
EnumValue(enum, name) == CHOOSE i \in 0 .. Len(enum) - 1 : enum[i + 1] = name

TaskInit ==
    /\ task_life = "unborn"
    /\ task_handle = NULL
    /\ k_task = "none"
    /\ k_task_deletes = 0
    /\ get_state = NULL

\* Task(handler, ...): xTaskCreateStatic and configASSERT(handle != nullptr),
\* or configASSERT(xTaskCreate(..., &handle) == pdPASS): the dynamic creation
\* is the asserted expression, and fails when the heap cannot hold the task.
Task(created) ==
    /\ task_life = "unborn"
    /\ static_alloc => created
    /\ IF static_alloc \/ asserts
       THEN /\ task_handle' = IF created THEN TCB ELSE NULL
            /\ k_task' = IF created THEN "eReady" ELSE "none"
            /\ task_life' = IF created THEN "alive" ELSE "halted"
       ELSE /\ created
            /\ task_life' = "alive"
            /\ UNCHANGED <<task_handle, k_task>>
    /\ UNCHANGED <<k_task_deletes, get_state, nonTask>>

\* the scheduler switches the task in or out, the task blocks or is woken
Schedule(to) ==
    /\ <<k_task, to>> \in {<<"eReady", "eRunning">>, <<"eRunning", "eReady">>,
                          <<"eRunning", "eBlocked">>, <<"eBlocked", "eReady">>}
    /\ k_task' = to
    /\ UNCHANGED <<task_life, task_handle, k_task_deletes, get_state, nonTask>>

\* vTaskDelete(xTaskToDelete)
vTaskDelete ==
    /\ k_task' = "eDeleted"
    /\ k_task_deletes' = k_task_deletes + 1

\* Delete(): if (handle) vTaskDelete(handle); handle = nullptr;
Delete ==
    /\ task_life = "alive"
    /\ IF task_handle # NULL THEN vTaskDelete ELSE UNCHANGED <<k_task, k_task_deletes>>
    /\ task_handle' = NULL
    /\ UNCHANGED <<task_life, get_state, nonTask>>

\* ~Task() { Delete(); }
TaskDtor ==
    /\ task_life = "alive"
    /\ IF task_handle # NULL THEN vTaskDelete ELSE UNCHANGED <<k_task, k_task_deletes>>
    /\ task_handle' = NULL
    /\ task_life' = "destroyed"
    /\ UNCHANGED <<get_state, nonTask>>

\* static SelfDelete(), called by the task from its own code: vTaskDelete(nullptr)
Task_SelfDelete ==
    /\ k_task = "eRunning"
    /\ vTaskDelete
    /\ UNCHANGED <<task_life, task_handle, get_state, nonTask>>

\* Suspend(): vTaskSuspend(handle)
Suspend ==
    /\ task_life = "alive"
    /\ task_handle # NULL
    /\ k_task \in {"eRunning", "eReady", "eBlocked", "eSuspended"}
    /\ k_task' = "eSuspended"
    /\ UNCHANGED <<task_life, task_handle, k_task_deletes, get_state, nonTask>>

\* Resume(): vTaskResume(handle)
Resume ==
    /\ task_life = "alive"
    /\ task_handle # NULL
    /\ k_task \in {"eRunning", "eReady", "eBlocked", "eSuspended"}
    /\ k_task' = IF k_task = "eSuspended" THEN "eReady" ELSE k_task
    /\ UNCHANGED <<task_life, task_handle, k_task_deletes, get_state, nonTask>>

\* GetState(): eTaskState state = eTaskGetState(handle); return (TaskState)state;
\* the cast keeps the integer value
GetState ==
    /\ task_life = "alive"
    /\ task_handle # NULL
    /\ get_state' = EnumValue(eTaskState, k_task)
    /\ UNCHANGED <<task_life, task_handle, k_task, k_task_deletes, nonTask>>

(***************************************************************************)
(* Task notifications (configUSE_TASK_NOTIFICATIONS == 1)                  *)
(***************************************************************************)
MaxNotify == 2              \* NotifyGive calls explored
NotifyIndexes == {-1, 0}    \* the index arguments explored; -1 is the default

NotifyInit ==
    /\ k_notified = 0
    /\ notify_gives = 0

\* NotifyGive(index): configASSERT(xTaskNotifyGiveIndexed(handle, index) == pdPASS)
\* or configASSERT(xTaskNotifyGive(handle) == pdPASS).  The give is the
\* asserted expression; it always returns pdPASS, and the kernel asserts on a
\* null handle.  Not called with the handle of a task already deleted.
NotifyGive(index) ==
    /\ task_life = "alive"
    /\ task_handle # NULL => k_task # "eDeleted"
    /\ notify_gives < MaxNotify
    /\ IF ~asserts
       THEN /\ notify_gives' = notify_gives + 1
            /\ UNCHANGED <<k_notified, task_life>>
       ELSE IF task_handle # NULL
       THEN /\ k_notified' = k_notified + 1
            /\ notify_gives' = notify_gives + 1
            /\ UNCHANGED task_life
       ELSE /\ task_life' = "halted"
            /\ UNCHANGED <<k_notified, notify_gives>>
    /\ UNCHANGED <<task_handle, k_task, k_task_deletes, get_state, nonNotify>>

(***************************************************************************)
(* Timer: one Timer object and the kernel software timer it creates.  A    *)
(* timer command (start, stop, delete) is posted to the timer command      *)
(* queue and fails when the queue stays full for the whole wait.           *)
(***************************************************************************)
TMR == 1                    \* the handle of the one kernel timer

TimerInit ==
    /\ timer_life = "unborn"
    /\ timer_handle = NULL
    /\ k_timer = "none"
    /\ k_timer_auto = FALSE
    /\ k_timer_deletes = 0
    /\ timer_call = [op |-> "none", arg |-> 0]

\* Timer(callback, period_ms, autoreload, ...): handle = xTimerCreate[Static](...);
\* configASSERT(handle != nullptr);  the dynamic creation can fail
Timer(autoreload, created) ==
    /\ timer_life = "unborn"
    /\ static_alloc => created
    /\ timer_handle' = IF created THEN TMR ELSE NULL
    /\ k_timer' = IF created THEN "dormant" ELSE "none"
    /\ k_timer_auto' = (created /\ autoreload)
    /\ ~created => ~autoreload
    /\ timer_life' = IF asserts /\ ~created THEN "halted" ELSE "alive"
    /\ timer_call' = IF asserts /\ ~created THEN timer_call ELSE [op |-> "Timer", arg |-> 0]
    /\ UNCHANGED <<k_timer_deletes, nonTimer>>

\* configASSERT(xTimerStart/Stop/Delete(handle, pdMS_TO_TICKS(wait_ms)) == pdPASS):
\* the command is the asserted expression, so it is issued only where
\* configASSERT evaluates its argument; there a null handle (the kernel
\* asserts on it) or a command that is not accepted ends in assert_failed.
\* after is the timer's state once the command is accepted.
TimerCommand(sent, after, deleted) ==
    IF ~asserts
    THEN [life |-> timer_life, k |-> k_timer, deletes |-> k_timer_deletes]
    ELSE IF timer_handle # NULL /\ sent
    THEN [life |-> timer_life, k |-> after, deletes |-> k_timer_deletes + deleted]
    ELSE [life |-> "halted", k |-> k_timer, deletes |-> k_timer_deletes]

\* if (handle) configASSERT(xTimerDelete(handle, ...) == pdPASS);
xTimerDeleteIfHandle(sent) ==
    IF timer_handle # NULL
    THEN TimerCommand(sent, "deleted", 1)
    ELSE [life |-> timer_life, k |-> k_timer, deletes |-> k_timer_deletes]

\* Delete(wait_ms): if (handle) configASSERT(...); handle = nullptr;
TimerDelete(wait_ms, sent) ==
    LET r == xTimerDeleteIfHandle(sent) IN
    /\ timer_life = "alive"
    /\ k_timer' = r.k
    /\ k_timer_deletes' = r.deletes
    /\ timer_life' = r.life
    /\ timer_handle' = IF r.life = "halted" THEN timer_handle ELSE NULL
    /\ timer_call' = IF r.life = "halted" THEN timer_call
                     ELSE [op |-> "Delete", arg |-> wait_ms]
    /\ UNCHANGED <<k_timer_auto, nonTimer>>

\* ~Timer() { Delete(); }
TimerDtor(sent) ==
    LET r == xTimerDeleteIfHandle(sent) IN
    /\ timer_life = "alive"
    /\ k_timer' = r.k
    /\ k_timer_deletes' = r.deletes
    /\ timer_life' = IF r.life = "halted" THEN "halted" ELSE "destroyed"
    /\ timer_handle' = IF r.life = "halted" THEN timer_handle ELSE NULL
    /\ timer_call' = IF r.life = "halted" THEN timer_call
                     ELSE [op |-> "~Timer", arg |-> 0]
    /\ UNCHANGED <<k_timer_auto, nonTimer>>

\* Start(wait_ms): configASSERT(xTimerStart(handle, pdMS_TO_TICKS(wait_ms)) == pdPASS);
Start(wait_ms, sent) ==
    LET r == TimerCommand(sent, "active", 0) IN
    /\ timer_life = "alive"
    /\ k_timer' = r.k
    /\ timer_life' = r.life
    /\ timer_call' = IF r.life = "halted" THEN timer_call
                     ELSE [op |-> "Start", arg |-> wait_ms]
    /\ UNCHANGED <<timer_handle, k_timer_auto, k_timer_deletes, nonTimer>>

\* Stop(wait_ms): configASSERT(xTimerStop(handle, pdMS_TO_TICKS(wait_ms)) == pdPASS);
Stop(wait_ms, sent) ==
    LET r == TimerCommand(sent, "dormant", 0) IN
    /\ timer_life = "alive"
    /\ k_timer' = r.k
    /\ timer_life' = r.life
    /\ timer_call' = IF r.life = "halted" THEN timer_call
                     ELSE [op |-> "Stop", arg |-> wait_ms]
    /\ UNCHANGED <<timer_handle, k_timer_auto, k_timer_deletes, nonTimer>>

\* the period of an active timer runs out: a one-shot timer goes dormant
Expire ==
    /\ k_timer = "active"
    /\ k_timer' = IF k_timer_auto THEN "active" ELSE "dormant"
    /\ UNCHANGED <<timer_life, timer_handle, k_timer_auto, k_timer_deletes, timer_call, nonTimer>>

(***************************************************************************)
(* The wait_ms of a blocking call on its way to the kernel: Lock, Take and *)
(* ~DoAsync hand pdMS_TO_TICKS(wait_ms) to xSemaphoreTake.                 *)
(***************************************************************************)
MaxMs == 12                 \* the waits 0 .. MaxMs and WAIT_MAX - MaxMs .. WAIT_MAX are explored
Overlong == 10 * WAIT_MAX   \* a wait_ms beyond the range of TickType_t (size_t is wider)
MsInputs == (0 .. MaxMs) \cup ((WAIT_MAX - MaxMs) .. WAIT_MAX) \cup {Overlong}

TicksInit ==
    /\ ms_in = NULL
    /\ ticks_out = NULL

\* xSemaphoreTake(handle, pdMS_TO_TICKS(wait_ms)): the budget the kernel is given
TakeBudget(wait_ms) ==
    /\ ms_in' = wait_ms
    /\ ticks_out' = pdMS_TO_TICKS(wait_ms)
    /\ UNCHANGED nonTicks

(***************************************************************************)
(* TimerDelay: one object and the task that uses it for a periodic loop:   *)
(* work, Wait(ms), work, Wait(ms), ...  Time runs in milliseconds; the     *)
(* kernel counts ticks of 1000 / configTICK_RATE_HZ milliseconds in a      *)
(* TickType_t that wraps.                                                  *)
(***************************************************************************)
MaxWaits == 3               \* Wait calls explored after a Reset
MaxResets == 2              \* recordings of the reference time explored
DelayTimes == {5, 10, 15}   \* the ms arguments of Wait explored
\* when the object is constructed: early, and shortly before the tick count
\* wraps at 1000 Hz and at 100 Hz
StartTimes == {3, WAIT_MAX - 5, 10 * WAIT_MAX - 1}

TickWrap == portMAX_DELAY + 1
\* the ticks counted up to time t, before truncation to TickType_t
TicksBy(t) == (t * tick_rate) \div 1000
xTaskGetTickCount == TicksBy(now_ms) % TickWrap
\* the time of the tick interrupt that makes the count TicksBy = n
TimeOfTick(n) == (n * 1000 + tick_rate - 1) \div tick_rate

DelayInit ==
    /\ now_ms = 0
    /\ delay_life = "unborn"
    /\ xLastWakeTime = 0
    /\ t0 = NULL
    /\ period = NULL
    /\ waits = 0
    /\ resets = 0
    /\ woke = NULL
    /\ delay_pc = "work"

\* Reset(), called at time at: xLastWakeTime = xTaskGetTickCount();
ResetBody(at) ==
    /\ xLastWakeTime' = TicksBy(at) % TickWrap
    /\ t0' = TicksBy(at) % TickWrap
    /\ period' = NULL
    /\ waits' = 0
    /\ resets' = resets + 1
    /\ woke' = NULL
    /\ delay_pc' = "work"

\* TimerDelay(start), constructed at time at: if (start) Reset();
TimerDelay(start, at) ==
    /\ delay_life = "unborn"
    /\ delay_life' = "alive"
    /\ now_ms' = at
    /\ IF start THEN ResetBody(at)
                ELSE UNCHANGED <<xLastWakeTime, t0, period, waits, resets, woke, delay_pc>>
    /\ UNCHANGED nonDelay

Reset ==
    /\ delay_life = "alive"
    /\ resets < MaxResets
    /\ ResetBody(now_ms)
    /\ UNCHANGED <<now_ms, delay_life, nonDelay>>

\* the task works for d milliseconds, less than the ms it then passes to Wait
Work(d, ms) ==
    /\ delay_life = "alive"
    /\ delay_pc = "work"
    /\ period \in {NULL, ms}
    /\ d < ms
    /\ now_ms' = now_ms + d
    /\ period' = ms
    /\ delay_pc' = "call"
    /\ UNCHANGED <<delay_life, xLastWakeTime, t0, waits, resets, woke, nonDelay>>

\* vTaskDelayUntil(pxPreviousWakeTime, xTimeIncrement): whether the task
\* must block before the wake time *pxPreviousWakeTime + xTimeIncrement
xShouldDelay(previous, xTimeToWake, count) ==
    IF count < previous
    THEN xTimeToWake < previous /\ xTimeToWake > count
    ELSE xTimeToWake < previous \/ xTimeToWake > count

\* Wait(ms): vTaskDelayUntil(&xLastWakeTime, pdMS_TO_TICKS(ms));  the kernel
\* asserts xTimeIncrement > 0, stores the wake time and blocks the task
\* until the tick count reaches it
Wait(ms) ==
    LET xTimeIncrement == pdMS_TO_TICKS(ms)
        xTimeToWake == (xLastWakeTime + xTimeIncrement) % TickWrap
        left == (xTimeToWake - xTaskGetTickCount + TickWrap) % TickWrap
        back == IF xShouldDelay(xLastWakeTime, xTimeToWake, xTaskGetTickCount)
                THEN TimeOfTick(TicksBy(now_ms) + left)
                ELSE now_ms
    IN  /\ delay_life = "alive"
        /\ delay_pc = "call"
        /\ waits < MaxWaits
        /\ period = ms
        /\ IF asserts /\ xTimeIncrement = 0
           THEN /\ delay_life' = "halted"
                /\ UNCHANGED <<now_ms, xLastWakeTime, period, waits, woke, delay_pc>>
           ELSE /\ xLastWakeTime' = xTimeToWake
                /\ now_ms' = back
                /\ woke' = TicksBy(back) % TickWrap
                /\ UNCHANGED period
                /\ waits' = waits + 1
                /\ delay_pc' = "work"
                /\ UNCHANGED delay_life
        /\ UNCHANGED <<t0, resets, nonDelay>>

SemWaits == {0, WAIT_MAX}   \* the wait_ms arguments of Lock and Take explored

\* Mutex::Lock(wait_ms): xSemaphoreTake(handle, pdMS_TO_TICKS(wait_ms)) == pdTRUE
Lock(o, wait_ms) ==
    LET h == sem_obj[o].handle IN
    /\ sem_obj[o].state = "alive"
    /\ \E r \in xSemaphoreTake(k_sem[h].count, wait_ms) :
          /\ k_sem' = [k_sem EXCEPT ![h].count = r.count]
          /\ sem_call' = [op |-> "Lock", obj |-> o, arg |-> wait_ms,
                          ret |-> IF r.ok THEN 1 ELSE 0,
                          waited |-> IF r.ok THEN 0 ELSE pdMS_TO_TICKS(wait_ms)]
          /\ sem_hist' = [sem_hist EXCEPT ![o] = AfterTake(@, r.ok, wait_ms, k_sem[h].max)]
    /\ UNCHANGED <<sem_obj, k_next, made, nonSem>>

\* Mutex::Unlock reporting success whatever xSemaphoreGive returned
Unlock_Forced(o) ==
    LET h == sem_obj[o].handle IN
    /\ sem_obj[o].state = "alive"
    /\ k_sem' = [k_sem EXCEPT ![h].count = IF @ < k_sem[h].max THEN @ + 1 ELSE @]
    /\ sem_call' = [op |-> "Unlock", obj |-> o, arg |-> 0, ret |-> 1, waited |-> 0]
    /\ sem_hist' = [sem_hist EXCEPT ![o] = AfterGive(@, TRUE, k_sem[h].max)]
    /\ UNCHANGED <<sem_obj, k_next, made, nonSem>>

\* Mutex::Unlock(): xSemaphoreGive(handle) == pdTRUE
Unlock(o) ==
    LET h == sem_obj[o].handle
        r == xSemaphoreGive(k_sem[h].count, k_sem[h].max)
    IN  /\ sem_obj[o].state = "alive"
        /\ k_sem' = [k_sem EXCEPT ![h].count = r.count]
        /\ sem_call' = [op |-> "Unlock", obj |-> o, arg |-> 0,
                        ret |-> IF r.ok THEN 1 ELSE 0, waited |-> 0]
        /\ sem_hist' = [sem_hist EXCEPT ![o] = AfterGive(@, r.ok, k_sem[h].max)]
        /\ UNCHANGED <<sem_obj, k_next, made, nonSem>>

\* BinarySemaphore::Give(): Mutex::Unlock()
Give(o) ==
    /\ sem_obj[o].class \in {"BinarySemaphore", "CountingSemaphore"}
    /\ Unlock(o)

\* BinarySemaphore::Take(wait_ms): Mutex::Lock(wait_ms)
Take(o, wait_ms) ==
    /\ sem_obj[o].class \in {"BinarySemaphore", "CountingSemaphore"}
    /\ Lock(o, wait_ms)

\* CountingSemaphore::GetCount() with the count consumed by the read
GetCount_Draining(o) ==
    LET h == sem_obj[o].handle IN
    /\ sem_obj[o].state = "alive"
    /\ sem_obj[o].class = "CountingSemaphore"
    /\ k_sem' = [k_sem EXCEPT ![h].count = IF @ > 0 THEN @ - 1 ELSE @]
    /\ sem_call' = [op |-> "GetCount", obj |-> o, arg |-> 0,
                    ret |-> k_sem[h].count, waited |-> 0]
    /\ UNCHANGED <<sem_obj, k_next, made, sem_hist, nonSem>>

\* CountingSemaphore::GetCount(): uxSemaphoreGetCount(handle)
GetCount(o) ==
    LET h == sem_obj[o].handle IN
    /\ sem_obj[o].state = "alive"
    /\ sem_obj[o].class = "CountingSemaphore"
    /\ sem_call' = [op |-> "GetCount", obj |-> o, arg |-> 0,
                    ret |-> k_sem[h].count, waited |-> 0]
    /\ UNCHANGED <<sem_obj, k_sem, k_next, made, sem_hist, nonSem>>

(***************************************************************************)
(* Specifications                                                          *)
(***************************************************************************)
Init ==
    /\ tick_rate \in TickRates
    /\ static_alloc \in BOOLEAN
    /\ asserts \in BOOLEAN
    /\ QueueInit
    /\ MPInit
    /\ AsyncInit
    /\ SemInit
    /\ TaskInit
    /\ TimerInit
    /\ TicksInit
    /\ DelayInit
    /\ NotifyInit

\* Spec: one task calls the Queue, every call runs to completion
Next ==
    \/ \E v \in Items : TryEmplaceBack(v)
    \/ \E v \in Items : TryPushBack(v)
    \/ \E w \in WaitTimes : Front(w)
    \/ Pop

Spec == Init /\ [][Next]_vars

\* SpecMP: the producers and the one consumer, interleaved
NextMP ==
    \/ \E p \in Producers : EmplaceBegin(p)
    \/ \E p \in Producers : EmplaceCheck(p)
    \/ \E p \in Producers : EmplaceConstruct(p)
    \/ \E p \in Producers : EmplaceGive(p)
    \/ \E p \in Producers : EmplaceAdvance(p)
    \/ \E w \in WaitTimes : FrontBegin(w)
    \/ FrontTake
    \/ ConsumerPop

SpecMP == Init /\ [][NextMP]_vars

\* SpecSPSC: one producer and the one consumer, interleaved
Producer == CHOOSE p \in Producers : TRUE

NextSPSC ==
    \/ EmplaceBegin(Producer)
    \/ EmplaceCheck(Producer)
    \/ EmplaceConstruct(Producer)
    \/ EmplaceGive(Producer)
    \/ EmplaceAdvance(Producer)
    \/ \E w \in WaitTimes : FrontBegin(w)
    \/ FrontTake
    \/ ConsumerPop

SpecSPSC == Init /\ [][NextSPSC]_vars

\* One producer and one consumer, with the consumer's stay on the wait list
\* of the semaphore as a position of its own.
NextWake ==
    \/ EmplaceBegin(Producer)
    \/ EmplaceCheck(Producer)
    \/ EmplaceConstruct(Producer)
    \/ EmplaceGive(Producer)
    \/ EmplaceAdvance(Producer)
    \/ \E w \in WaitTimes : FrontBegin(w)
    \/ FrontTake
    \/ FrontBlock
    \/ FrontWake
    \/ ConsumerPop

SpecWake == Init /\ [][NextWake]_vars

\* SpecAsync: one DoAsync from construction to the return of its destructor
NextAsync ==
    \/ \E priority \in Priorities, own \in Priorities : DoAsync(priority, own)
    \/ DtorTake
    \/ DtorTimeout
    \/ DtorReturn
    \/ HandlerStart
    \/ JobBlocks
    \/ JobWakes
    \/ JobReturns
    \/ HandlerGive
    \/ SelfDelete

SpecAsync == Init /\ [][NextAsync]_vars

\* SpecSem: objects of the Mutex family, each constructed and destroyed once
NextSem ==
    \/ \E o \in Objs, class \in Classes, initial \in 0 .. MaxCount, max \in 1 .. MaxCount :
          Construct(o, class, initial, max)
    \/ \E o \in Objs : MutexDtor(o)

SpecSem == Init /\ [][NextSem]_vars

\* SpecSemOps: one object of the Mutex family, constructed with its handle
\* created, called any number of times and destroyed
ConstructOne(o, class, initial, max) ==
    /\ \A x \in Objs \ {o} : sem_obj[x].state = "unborn"
    /\ Construct(o, class, initial, max)
    /\ sem_obj'[o].state = "alive"
    /\ sem_obj'[o].handle # NULL

NextSemOps ==
    \/ \E o \in Objs, class \in Classes, initial \in 0 .. MaxCount, max \in 1 .. MaxCount :
          ConstructOne(o, class, initial, max)
    \/ \E o \in Objs : MutexDtor(o)
    \/ \E o \in Objs, w \in SemWaits : Lock(o, w)
    \/ \E o \in Objs : Unlock(o)
    \/ \E o \in Objs : Give(o)
    \/ \E o \in Objs, w \in SemWaits : Take(o, w)
    \/ \E o \in Objs : GetCount(o)

SpecSemOps == Init /\ [][NextSemOps]_vars

\* SpecTask: one Task object from construction to destruction, the task it
\* runs, and the scheduler
NextTask ==
    \/ \E created \in BOOLEAN : Task(created)
    \/ \E to \in {"eRunning", "eReady", "eBlocked"} : Schedule(to)
    \/ Delete
    \/ TaskDtor
    \/ Task_SelfDelete
    \/ Suspend
    \/ Resume
    \/ GetState

SpecTask == Init /\ [][NextTask]_vars

\* SpecTimer: one Timer object from construction to destruction
NextTimer ==
    \/ \E autoreload \in BOOLEAN, created \in BOOLEAN : Timer(autoreload, created)
    \/ \E w \in WaitTimes, sent \in BOOLEAN : TimerDelete(w, sent)
    \/ \E sent \in BOOLEAN : TimerDtor(sent)
    \/ \E w \in WaitTimes, sent \in BOOLEAN : Start(w, sent)
    \/ \E w \in WaitTimes, sent \in BOOLEAN : Stop(w, sent)
    \/ Expire

SpecTimer == Init /\ [][NextTimer]_vars

\* SpecTicks: blocking calls with every explored wait_ms, the default
\* WAIT_MAX among them
NextTicks ==
    \/ \E wait_ms \in MsInputs : TakeBudget(wait_ms)

SpecTicks == Init /\ [][NextTicks]_vars

\* SpecDelay: a periodic loop on one TimerDelay
NextDelay ==
    \/ \E start \in BOOLEAN, at \in StartTimes : TimerDelay(start, at)
    \/ Reset
    \/ \E ms \in DelayTimes : \E d \in 0 .. (ms - 1) : Work(d, ms)
    \/ \E ms \in DelayTimes : Wait(ms)

SpecDelay == Init /\ [][NextDelay]_vars

\* SpecCtor: objects of every class that creates a kernel handle are
\* constructed, on a heap that may be exhausted
NextCtor ==
    \/ \E o \in Objs, class \in Classes, initial \in 0 .. MaxCount, max \in 1 .. MaxCount :
          Construct(o, class, initial, max)
    \/ \E created \in BOOLEAN : Task(created)
    \/ \E priority \in Priorities, own \in Priorities : DoAsync(priority, own)
    \/ \E autoreload \in BOOLEAN, created \in BOOLEAN : Timer(autoreload, created)

SpecCtor == Init /\ [][NextCtor]_vars

\* SpecRequests: the calls whose kernel request is written inside configASSERT
NextRequests ==
    \/ \E created \in BOOLEAN : Task(created)
    \/ \E index \in NotifyIndexes : NotifyGive(index)
    \/ Delete
    \/ \E priority \in Priorities, own \in Priorities : DoAsync(priority, own)
    \/ \E autoreload \in BOOLEAN, created \in BOOLEAN : Timer(autoreload, created)
    \/ \E w \in WaitTimes, sent \in BOOLEAN : Start(w, sent)
    \/ \E w \in WaitTimes, sent \in BOOLEAN : Stop(w, sent)
    \/ \E w \in WaitTimes, sent \in BOOLEAN : TimerDelete(w, sent)

SpecRequests == Init /\ [][NextRequests]_vars

(***************************************************************************)
(* Queue claims                                                            *)
(***************************************************************************)
Resident == {s \in Slots : buffer[s].live}
IndexDistance == (wr_idx - rd_idx + size) % size
QueueOps == <<buffer, rd_idx, wr_idx, sem_count>>

\* C1: the elements read by successive Front+Pop pairs are the successfully
\* emplaced elements, each once, in the order of their emplacement (FIFO).
C1_Fifo ==
    /\ Len(observed) <= Len(emplaced)
    /\ \A i \in 1 .. Len(observed) :
          i <= Len(emplaced) => (observed[i].live /\ observed[i].val = emplaced[i])

\* C2: at most size-1 elements are resident; TryEmplaceBack succeeds exactly
\* when fewer than size-1 are resident; one Pop on a full queue makes the
\* next TryEmplaceBack succeed.
C2_Capacity ==
    [][/\ Cardinality(Resident') <= size - 1
       /\ \A v \in Items : TryEmplaceBack(v) =>
             (call'.ret <=> Cardinality(Resident) < size - 1)
       /\ (Pop /\ Cardinality(Resident) = size - 1) => NextWrIdx(wr_idx') # rd_idx']_vars

\* the part of C2 that the code keeps: never more than size-1 resident
C2_AtMost == Cardinality(Resident) <= size - 1

\* C3: TryEmplaceBack on a full Queue returns false and constructs nothing,
\* moves neither index and leaves the semaphore count as it was.
C3_FullNoEffect ==
    [][\A v \in Items :
          (TryEmplaceBack(v) /\ (Cardinality(Resident) = size - 1 \/ NextWrIdx(wr_idx) = rd_idx))
              => (call'.ret = FALSE /\ UNCHANGED QueueOps)]_vars

C3_Witness ==
    /\ call.op = "TryEmplaceBack"
    /\ call.ret = FALSE
    /\ Cardinality(Resident) = size - 1

\* C4: (write_index - read_index) mod size equals the semaphore's count.
C4_CountMatchesIndices == IndexDistance = sem_count

\* C5: Front(wait_ms > 0) on a Queue that holds no element returns nullptr
\* when nothing is emplaced during the wait.
C5_EmptyWaitReturnsNull ==
    (call.op = "Front" /\ call.arg > 0 /\ Resident = {}) => front_ret = NULL

\* C6: Front(0) on a Queue that holds no element returns nullptr at once,
\* takes nothing from the semaphore and moves neither index.
C6_EmptyNoWait ==
    [][(Front(0) /\ Resident = {}) => (front_ret' = NULL /\ UNCHANGED QueueOps)]_vars

\* C7: with several producers, two successful TryEmplaceBack calls never
\* construct into the same slot: no element whose call returned true is
\* constructed over before the consumer has popped it.
C7_OwnSlot == \A i \in 1 .. Len(emplaced) : emplaced[i] \notin lost

\* C20: with one producer and one consumer running concurrently, every
\* non-empty result of Front refers to a slot whose element has been
\* constructed and has not yet been destroyed by Pop.
C20_FrontRefersToElement == front_ret # NULL => buffer[front_ret].live

\* C21: when the consumer is blocked in Front(wait_ms) on an empty Queue and
\* a TryEmplaceBack gives the semaphore before the wait ends, the consumer is
\* woken and Front returns a reference to a constructed element, the one just
\* emplaced; a wait that a Give ended never returns nullptr.
GivenWhileBlocked == pc[Consumer] = "blocked" /\ sem_count > 0

C21_BlockedConsumerWoken ==
    [][GivenWhileBlocked /\ pc'[Consumer] = "idle"
         => /\ front_ret' # NULL
            /\ buffer[front_ret'].live
            /\ buffer[front_ret'].val \notin {observed[i].val : i \in 1 .. Len(observed)}]_vars


(***************************************************************************)
(* DoAsync claims                                                          *)
(***************************************************************************)
JobFinished == task_pc \in {"give", "selfdelete", "deleted"}
\* the destructor has returned: its Take returned true (joined) or false (gave_up)
DtorReturned == creator_pc \in {"joined", "gave_up"}

\* C8: the destructor of a DoAsync returns only after the job function has
\* returned, whatever the priorities of the two tasks.
C8_JoinsJob == DtorReturned => JobFinished

\* C9: when the destructor of a DoAsync returns, the spawned task has
\* executed its self-deletion, whatever the priorities of the two tasks.
\* Stated for the destructor whose Take returned true, so that a violation
\* does not rest on the tick budget of the Take running out.
C9_TaskTornDown == creator_pc = "joined" => task_pc = "deleted"

(***************************************************************************)
(* Handle lifecycle claims                                                 *)
(***************************************************************************)
HandlesOf(o) == {made[o][i] : i \in 1 .. Len(made[o])}

\* C10: once an object's destructor has completed, every kernel handle created
\* while it was constructed (base class constructors included) has been deleted
\* exactly once and the stored handle is null.
C10_EveryHandleDeletedOnce ==
    \A o \in Objs : sem_obj[o].state = "destroyed" =>
        /\ sem_obj[o].handle = NULL
        /\ \A h \in HandlesOf(o) : k_sem[h].deletes = 1

(***************************************************************************)
(* Mutex family claims                                                     *)
(***************************************************************************)
Alive(o, class) == sem_obj[o].state = "alive" /\ sem_obj[o].class = class
CountOf(o) == k_sem[sem_obj[o].handle].count
MaxOf(o) == k_sem[sem_obj[o].handle].max
Min(a, b) == IF a < b THEN a ELSE b

\* the calls on o since its construction are Gives, then Takes, and nothing else
GivesThenTakes(o) == sem_hist[o].phase # "other" /\ sem_hist[o].probe = "none"

C11_Scenario(o) ==
    LET hh == sem_hist[o] IN
    /\ CountOf(o) \in 0 .. MaxOf(o)
    /\ (GivesThenTakes(o) /\ hh.initial = 0) =>
          /\ hh.given = Min(hh.gives, MaxOf(o))
          /\ hh.phase = "giving" => CountOf(o) = hh.given
          /\ (hh.gives >= MaxOf(o) /\ hh.takes <= MaxOf(o)) =>
                (hh.taken = hh.takes /\ CountOf(o) = MaxOf(o) - hh.takes)
    /\ (sem_call.op = "GetCount" /\ sem_call.obj = o) => sem_call.ret = CountOf(o)

\* C11: a CountingSemaphore(0, M) keeps its count within [0, M]; M consecutive
\* Gives return true and the (M+1)-th returns false leaving the count at M;
\* after M successful Takes GetCount returns 0; GetCount never changes the count.
C11_CountingSemaphore ==
    [][/\ \A o \in Objs : Alive(o, "CountingSemaphore")' => C11_Scenario(o)'
       /\ \A o \in Objs : GetCount(o) => UNCHANGED k_sem]_vars

C11_Witness ==
    \E o \in Objs :
        /\ Alive(o, "CountingSemaphore")
        /\ GivesThenTakes(o)
        /\ sem_hist[o].initial = 0
        /\ MaxOf(o) = MaxCount
        /\ sem_hist[o].gives = MaxCount + 1
        /\ sem_hist[o].takes = MaxCount
        /\ sem_call = [op |-> "GetCount", obj |-> o, arg |-> 0, ret |-> 0, waited |-> 0]

\* C12: a freshly constructed BinarySemaphore is unsignaled: Take(0) on it
\* returns false without blocking; after one Give, Take(0) returns true and
\* a further Take(0) returns false again.
C12_FreshBinaryUnsignaled ==
    \A o \in Objs : Alive(o, "BinarySemaphore") =>
        LET hh == sem_hist[o] IN
        /\ hh.initial = 0
        /\ hh.probe \in {"none", "failed"}
        /\ (sem_call.op = "Lock" /\ sem_call.obj = o /\ sem_call.arg = 0) =>
              sem_call.waited = 0
        /\ (hh.phase # "other" /\ hh.gives = 1) =>
              (hh.given = 1 /\ hh.taken = Min(hh.takes, 1))

C12_Witness ==
    \E o \in Objs :
        /\ Alive(o, "BinarySemaphore")
        /\ sem_hist[o].phase = "taking"
        /\ sem_hist[o].probe = "failed"
        /\ sem_hist[o].gives = 1
        /\ sem_hist[o].takes = 2
        /\ sem_hist[o].taken = 1
        /\ sem_call = [op |-> "Lock", obj |-> o, arg |-> 0, ret |-> 0, waited |-> 0]

\* C13 as stated: Unlock on a Mutex and Give on a BinarySemaphore or
\* CountingSemaphore return false whenever no successful acquire on the
\* object is outstanding, and then leave the primitive unchanged.
C13_ReleaseNeedsAcquire ==
    [][\A o \in Objs : (Unlock(o) /\ sem_hist[o].held = 0) =>
          (sem_call'.ret = 0 /\ UNCHANGED k_sem)]_vars

\* C13, amended: Unlock on a Mutex returns false when no Lock is outstanding;
\* Give on a BinarySemaphore or CountingSemaphore returns false exactly when
\* the count is at its maximum (the signal is already given), whether or not
\* a Take came before; every release that returns false leaves the primitive
\* unchanged.
C13_ReleaseFailsWhenFull ==
    [][\A o \in Objs : Unlock(o) =>
          /\ (sem_obj[o].class = "Mutex" /\ sem_hist[o].held = 0) => sem_call'.ret = 0
          /\ sem_call'.ret = 0 <=> CountOf(o) = MaxOf(o)
          /\ sem_call'.ret = 0 => UNCHANGED k_sem]_vars

C13_Witness ==
    \E o \in Objs :
        /\ Alive(o, "Mutex")
        /\ sem_hist[o].held = 0
        /\ sem_call = [op |-> "Unlock", obj |-> o, arg |-> 0, ret |-> 0, waited |-> 0]

(***************************************************************************)
(* Task claims                                                             *)
(***************************************************************************)
\* C14: over the lifetime of a Task object the kernel receives at most one
\* delete for its task, counting self-deletion, Delete() and the destructor;
\* destroying the object of a task that has deleted itself deletes nothing.
C14_AtMostOneDelete == k_task_deletes <= 1

\* the wrapper state that has the name of each kernel state
SameName ==
    [eRunning |-> "Running", eReady |-> "Ready", eBlocked |-> "Blocked",
     eSuspended |-> "Suspended", eDeleted |-> "Deleted"]

\* C16: GetState() returns, for each kernel task state Running, Ready,
\* Blocked, Suspended and Deleted, the wrapper state of the same name, and
\* never a value outside {Ready, Running, Blocked, Suspended, Deleted}.
C16_GetStateSameName ==
    [][GetState =>
          /\ get_state' \in 0 .. Len(TaskState) - 1
          /\ k_task \in DOMAIN SameName =>
                get_state' = EnumValue(TaskState, SameName[k_task])]_vars

(***************************************************************************)
(* Timer claims                                                            *)
(***************************************************************************)
\* C15: Timer::Delete is idempotent: over any sequence of Delete calls
\* followed by the destructor the kernel timer is deleted exactly once, by
\* the first Delete or else by the destructor; a later Delete is a no-op;
\* the stored handle is null once a Delete has returned.
C15_DeleteOnce ==
    [][/\ k_timer_deletes' <= 1
       /\ \A w \in WaitTimes, sent \in BOOLEAN :
             (TimerDelete(w, sent) /\ timer_life' = "alive") =>
                /\ timer_handle' = NULL
                /\ timer_handle # NULL => k_timer_deletes' = 1
                /\ timer_handle = NULL => UNCHANGED <<k_timer, k_timer_deletes>>
       /\ (timer_life' = "destroyed" /\ k_timer' # "none") =>
             (k_timer_deletes' = 1 /\ k_timer' = "deleted")]_vars

(***************************************************************************)
(* Time claims                                                             *)
(***************************************************************************)
\* C17: a blocking call given WAIT_MAX reaches the kernel with the
\* wait-forever tick value portMAX_DELAY at every tick rate, and no other
\* wait_ms is converted to that value.
C17_WaitForever ==
    ms_in # NULL => (ms_in = WAIT_MAX <=> ticks_out = portMAX_DELAY)

\* C18: after the reference time was recorded at tick t0, the k-th
\* consecutive Wait(ms) returns at tick t0 + k * ticks(ms) and leaves the
\* reference time at that value, whatever work shorter than ms is done
\* between the calls.
C18_NoDrift ==
    (delay_life = "alive" /\ t0 # NULL /\ waits >= 1) =>
        /\ xLastWakeTime = (t0 + waits * pdMS_TO_TICKS(period)) % TickWrap
        /\ woke = xLastWakeTime

(***************************************************************************)
(* Construction claims                                                     *)
(***************************************************************************)
\* C19: when the kernel fails to create the handle while a Mutex,
\* BinarySemaphore, CountingSemaphore, Task, DoAsync or Timer is constructed,
\* the constructor does not return: no constructor returns an object whose
\* handle is null (for DoAsync, whose task was not created).
C19_FailedCreationHalts ==
    [][/\ \A o \in Objs : (sem_obj[o].state = "unborn" /\ sem_obj'[o].state = "alive") =>
             sem_obj'[o].handle # NULL
       /\ (task_life = "unborn" /\ task_life' = "alive") => task_handle' # NULL
       /\ (timer_life = "unborn" /\ timer_life' = "alive") => timer_handle' # NULL
       /\ (creator_pc = "start" /\ creator_pc' = "scope") => task_pc' = "handler"]_vars

(***************************************************************************)
(* Build claims                                                            *)
(***************************************************************************)
TimerReturned(op) == timer_call' # timer_call /\ timer_call'.op = op

\* C22: in both allocation modes, with configASSERT checking or compiled out
\* to nothing, a Task or DoAsync constructor that returns has created the
\* kernel task, a Timer::Start, Stop or Delete that returns has issued its
\* timer command, and a NotifyGive that returns has sent the notification.
C22_RequestsIssued ==
    [][/\ (task_life = "unborn" /\ task_life' = "alive") => k_task' = "eReady"
       /\ (creator_pc = "start" /\ creator_pc' = "scope") => task_pc' = "handler"
       /\ notify_gives' = notify_gives + 1 => k_notified' = k_notified + 1
       /\ (TimerReturned("Start") /\ timer_handle # NULL) => k_timer' = "active"
       /\ (TimerReturned("Stop") /\ timer_handle # NULL) => k_timer' = "dormant"
       /\ (TimerReturned("Delete") /\ timer_handle # NULL) =>
             (k_timer' = "deleted" /\ k_timer_deletes' = k_timer_deletes + 1)]_vars

====
